---- MODULE Spec2Model ----
(***************************************************************************)
(* Model of the matplotlib_playground example scripts:                     *)
(*   two_x_axis/main.py          x_tranform_functions and its two closures *)
(*   plot_one_x_many_y/main.py   get_line, set_color_cycle, plot_fit,      *)
(*                               plot_data                                 *)
(* Three specifications share the module, one per entry point:             *)
(*   SpecXform    the conversion pair applied one after the other          *)
(*   SpecGetLine  get_line on a small file                                 *)
(*   Spec         plot_data, one action per statement group of its body    *)
(***************************************************************************)
EXTENDS Integers, Sequences, FiniteSets, TLC

VARIABLES
    \* ---- two_x_axis: x_tranform_functions ----
    temperature,    \* closure variable of both conversion functions
    cross_section,  \* closure variable of both conversion functions
    quantity,       \* what x0 is: "pressure" or "mean_free_path"
    x0,             \* the value handed to the first conversion
    x1,             \* result of the first conversion (None before it ran)
    x2,             \* result of the second conversion (None before it ran)
    xpc,            \* "made" | "once" | "twice"
    \* ---- plot_one_x_many_y: get_line ----
    file_exists,    \* whether file_path names a readable file
    file_lines,     \* the file's lines, each a sequence of characters, no "\n"
    header_line,    \* argument header_line
    uppercase,      \* argument uppercase
    delimiter,      \* argument delimiter: None or a character
    gl_result,      \* the list get_line returned (None before the call)
    gl_pc,          \* "call" | "returned"
    \* ---- plot_one_x_many_y: plot_data ----
    x_data,         \* argument x_data: n strictly increasing numbers
    y_data,         \* argument y_data: its m columns, each of n numbers
    labels,         \* argument labels
    kwargs,         \* **kwargs of plot_data: a dict (function) of the keys given
    prop_cycle,     \* colours of the axes' property cycle
    cycle_pos,      \* how many colours ax.scatter has drawn from the cycle
    collections,    \* ax.collections: the scatter groups, in order
    lines,          \* ax.lines: fit curves and legend handles, in order
    fit_kwargs,     \* **kwargs dict of the current plot_fit call
    scatter_color,  \* local scatter_color of plot_data
    legend,         \* entries of the legend (None until ax.legend ran)
    i,              \* loop variable of plot_data
    pc,             \* position in plot_data
    error           \* the exception that ended plot_data, and where it was raised

xvars == <<temperature, cross_section, quantity, x0, x1, x2, xpc>>
gvars == <<file_exists, file_lines, header_line, uppercase, delimiter, gl_result, gl_pc>>
pvars == <<x_data, y_data, labels, kwargs, prop_cycle, cycle_pos, collections,
           lines, fit_kwargs, scatter_color, legend, i, pc, error>>
vars == <<xvars, gvars, pvars>>

None == "None"

(***************************************************************************)
(* Exact arithmetic on positive rationals.  A value is [n, d, e] and means *)
(* n/d * 10^e.  The canonical form has gcd(n, d) = 1, d coprime to 10 and  *)
(* n not divisible by 10, which makes equal values equal records.  Python  *)
(* floats are modelled by the exact rationals they approximate.            *)
(***************************************************************************)
RECURSIVE Gcd(_, _)
Gcd(a, b) == IF b = 0 THEN a ELSE Gcd(b, a % b)

RECURSIVE FixDen(_)
FixDen(r) ==
    IF r.d % 2 = 0 THEN FixDen([n |-> r.n * 5, d |-> r.d \div 2, e |-> r.e - 1])
    ELSE IF r.d % 5 = 0 THEN FixDen([n |-> r.n * 2, d |-> r.d \div 5, e |-> r.e - 1])
    ELSE r

RECURSIVE StripTens(_)
StripTens(r) ==
    IF r.n % 10 = 0 THEN StripTens([n |-> r.n \div 10, d |-> r.d, e |-> r.e + 1])
    ELSE r

Norm(r) ==
    LET g == Gcd(r.n, r.d)
    IN  StripTens(FixDen([n |-> r.n \div g, d |-> r.d \div g, e |-> r.e]))

Rat(n, d, e) == Norm([n |-> n, d |-> d, e |-> e])

RatMul(a, b) ==
    LET g1 == Gcd(a.n, b.d)
        g2 == Gcd(b.n, a.d)
    IN  Norm([n |-> (a.n \div g1) * (b.n \div g2),
              d |-> (a.d \div g2) * (b.d \div g1),
              e |-> a.e + b.e])

RatDiv(a, b) == RatMul(a, [n |-> b.d, d |-> b.n, e |-> 0 - b.e])

\* scipy.constants.k, the Boltzmann constant 1.380649e-23 J/K
BoltzmannK == Rat(1380649, 1, 0 - 29)

(***************************************************************************)
(* two_x_axis/main.py                                                      *)
(***************************************************************************)
\* (constants.k * temperature) / (pressure * cross_section) * 1E6
pressure_to_mean_free_path(T, cs, pressure) ==
    RatMul(RatDiv(RatMul(BoltzmannK, T), RatMul(pressure, cs)), Rat(1, 1, 6))

\* (constants.k * temperature) / (mean_free_path * cross_section) * 1E-6
mean_free_path_to_pressure(T, cs, mean_free_path) ==
    RatMul(RatDiv(RatMul(BoltzmannK, T), RatMul(mean_free_path, cs)), Rat(1, 1, 0 - 6))

\* Inputs of the conversion pair: temperatures in kelvin, cross sections in
\* m^2 and the values on the axis (pressures in Pa / mean free paths in um).
Temperatures == {Rat(300, 1, 0), Rat(400, 1, 0)}
CrossSections == {Rat(1, 1, 0 - 18), Rat(5, 1, 0 - 19), Rat(3, 1, 0 - 18)}
AxisValues ==
    {Rat(1, 1, 0 - 2), Rat(1, 2, 0), Rat(1, 3, 0), Rat(1, 1, 0), Rat(7, 3, 0),
     Rat(3, 1, 0), Rat(50, 1, 0), Rat(1000, 1, 0), Rat(552, 1, 0 - 2)}

XformIdle ==
    /\ temperature = None /\ cross_section = None /\ quantity = None
    /\ x0 = None /\ x1 = None /\ x2 = None /\ xpc = "off"

GetLineIdle ==
    /\ file_exists = FALSE /\ file_lines = <<>> /\ header_line = 0
    /\ uppercase = FALSE /\ delimiter = None /\ gl_result = None /\ gl_pc = "off"

\* error holds the exception and the statement of plot_data that raised it
NoError == [exc |-> None, at |-> None]

PlotIdle ==
    /\ x_data = <<>> /\ y_data = <<>> /\ labels = <<>> /\ kwargs = <<>>
    /\ prop_cycle = <<>> /\ cycle_pos = 0 /\ collections = <<>> /\ lines = <<>>
    /\ fit_kwargs = <<>> /\ scatter_color = None /\ legend = None
    /\ i = 0 /\ pc = "off" /\ error = NoError

\* x_tranform_functions(temperature, cross_section) has returned the pair;
\* the secondary axis is about to convert a value and convert it back.
InitXform ==
    /\ temperature \in Temperatures
    /\ cross_section \in CrossSections
    /\ quantity \in {"pressure", "mean_free_path"}
    /\ x0 \in AxisValues
    /\ x1 = None /\ x2 = None
    /\ xpc = "made"
    /\ GetLineIdle
    /\ PlotIdle

FirstConversion ==
    /\ xpc = "made"
    /\ x1' = IF quantity = "pressure"
             THEN pressure_to_mean_free_path(temperature, cross_section, x0)
             ELSE mean_free_path_to_pressure(temperature, cross_section, x0)
    /\ xpc' = "once"
    /\ UNCHANGED <<temperature, cross_section, quantity, x0, x2, gvars, pvars>>

SecondConversion ==
    /\ xpc = "once"
    /\ x2' = IF quantity = "pressure"
             THEN mean_free_path_to_pressure(temperature, cross_section, x1)
             ELSE pressure_to_mean_free_path(temperature, cross_section, x1)
    /\ xpc' = "twice"
    /\ UNCHANGED <<temperature, cross_section, quantity, x0, x1, gvars, pvars>>

NextXform == FirstConversion \/ SecondConversion

SpecXform == InitXform /\ [][NextXform]_vars

\* C1: the two functions returned by x_tranform_functions are inverses of each
\* other: converting a positive value and converting the result back gives
\* the value again, in both orders (exact equality in rational arithmetic).
C1_RoundTrip == xpc = "twice" => x2 = x0

\* What the code does instead: the second function multiplies by 1e-6 where
\* the inverse of the first needs 1e6, so a pressure comes back scaled by
\* 1e-12 and a mean free path by 1e12.
CodeRoundTrip ==
    xpc = "twice" =>
        x2 = RatMul(x0, IF quantity = "pressure" THEN Rat(1, 1, 0 - 12) ELSE Rat(1, 1, 12))

(***************************************************************************)
(* plot_one_x_many_y/main.py: get_line                                     *)
(* A string is a sequence of one-character strings.                        *)
(***************************************************************************)
NL == "\n"
Whitespace == {" ", NL}

\* str.upper() on the characters that occur in the modelled files
CharUpper(c) ==
    CASE c = "a" -> "A"
      [] c = "b" -> "B"
      [] OTHER -> c

str_upper(s) == [k \in 1..Len(s) |-> CharUpper(s[k])]

\* str.split(sep) with an explicit separator: cuts at every occurrence and
\* keeps empty strings; the empty string splits into one empty string.
RECURSIVE split_sep(_, _)
split_sep(s, sep) ==
    IF \A k \in 1..Len(s) : s[k] # sep
    THEN <<s>>
    ELSE LET cut == CHOOSE k \in 1..Len(s) :
                        s[k] = sep /\ \A j \in 1..(k - 1) : s[j] # sep
         IN  <<SubSeq(s, 1, cut - 1)>> \o split_sep(SubSeq(s, cut + 1, Len(s)), sep)

\* str.split(None): runs of whitespace separate the tokens, and leading and
\* trailing whitespace yields no empty token.
RECURSIVE split_ws(_)
split_ws(s) ==
    IF s = <<>> THEN <<>>
    ELSE IF s[1] \in Whitespace THEN split_ws(Tail(s))
    ELSE LET stops == {k \in 1..Len(s) : s[k] \in Whitespace}
             end == IF stops = {} THEN Len(s) + 1
                    ELSE CHOOSE k \in stops : \A j \in stops : k <= j
         IN  <<SubSeq(s, 1, end - 1)>> \o split_ws(SubSeq(s, end, Len(s)))

str_split(s, sep) == IF sep = None THEN split_ws(s) ELSE split_sep(s, sep)

\* linecache.getline(filename, lineno): the line with its terminator, or ''
\* when the file cannot be read or lineno is outside 1..len(lines).
linecache_getline(exists, flines, lineno) ==
    IF exists /\ 1 <= lineno /\ lineno <= Len(flines)
    THEN Append(flines[lineno], NL)
    ELSE <<>>

\* Faulty variant: the line is looked up by header_line itself, not header_line + 1.
get_line_no_offset(exists, flines, hl, up, delim) ==
    LET line == linecache_getline(exists, flines, hl)
        cased == IF up THEN str_upper(line) ELSE line
    IN  str_split(cased, delim)

\* Faulty variant: an index past the end wraps around to the start of the file.
get_line_wrapping(exists, flines, hl, up, delim) ==
    LET lineno == IF flines = <<>> THEN 1 ELSE (hl % Len(flines)) + 1
        line == linecache_getline(exists, flines, lineno)
        cased == IF up THEN str_upper(line) ELSE line
    IN  str_split(cased, delim)

\* get_line(file_path, header_line, uppercase, delimiter)
get_line(exists, flines, hl, up, delim) ==
    LET line == linecache_getline(exists, flines, hl + 1)
        cased == IF up THEN str_upper(line) ELSE line
    IN  str_split(cased, delim)

\* The lines a modelled file is made of: empty, one token, leading, trailing
\* and repeated whitespace, delimiter-separated fields with empty fields.
LinePool ==
    { <<>>,
      <<"a">>,
      <<"C">>,
      <<"a", " ", "b">>,
      <<" ", "a", " ", " ", "C", " ">>,
      <<"a", ",", "b">>,
      <<",", "a", ",", ",", "C">>,
      <<"a", " ", ",", "b">> }

MaxLines == 2

RECURSIVE SeqsUpTo(_, _)
SeqsUpTo(S, k) ==
    IF k = 0 THEN {<<>>}
    ELSE LET shorter == SeqsUpTo(S, k - 1)
         IN  shorter \cup {Append(q, v) : q \in {r \in shorter : Len(r) = k - 1}, v \in S}

InitGetLine ==
    /\ file_exists \in BOOLEAN
    /\ file_lines \in (IF file_exists THEN SeqsUpTo(LinePool, MaxLines) ELSE {<<>>})
    /\ header_line \in 0..MaxLines
    /\ uppercase \in BOOLEAN
    /\ delimiter \in {None, ","}
    /\ gl_result = None
    /\ gl_pc = "call"
    /\ XformIdle
    /\ PlotIdle

GetLine ==
    /\ gl_pc = "call"
    /\ gl_result' = get_line(file_exists, file_lines, header_line, uppercase, delimiter)
    /\ gl_pc' = "returned"
    /\ UNCHANGED <<file_exists, file_lines, header_line, uppercase, delimiter, xvars, pvars>>

NextGetLine == GetLine

SpecGetLine == InitGetLine /\ [][NextGetLine]_vars

\* The requested line does not exist: no such file, or header_line is not the
\* index of one of its lines.
LineMissing == ~file_exists \/ header_line >= Len(file_lines)

\* C6: get_line fails with a not-found error when the line (or the file) does
\* not exist; it never returns a token list then.
C6_NotFoundError == (gl_pc # "call" /\ LineMissing) => gl_pc = "raised"

\* C6 (amended): in that case get_line returns normally, with the tokens of
\* the empty string: no token for whitespace splitting, one empty token for an
\* explicit delimiter.
C6_ReturnsEmpty ==
    (gl_pc # "call" /\ LineMissing) =>
        /\ gl_pc = "returned"
        /\ gl_result = IF delimiter = None THEN <<>> ELSE << <<>> >>

C6_Witness ==
    /\ gl_pc = "returned" /\ file_exists
    /\ Len(file_lines) = 2 /\ header_line = 2
    /\ file_lines[2] # <<>>

\* The characters of a list of tokens put back together with sep between
\* them (sep = <<>> concatenates).
RECURSIVE JoinTokens(_, _)
JoinTokens(tokens, sep) ==
    IF tokens = <<>> THEN <<>>
    ELSE IF Len(tokens) = 1 THEN tokens[1]
    ELSE tokens[1] \o sep \o JoinTokens(Tail(tokens), sep)

RECURSIVE DropWhitespace(_)
DropWhitespace(s) ==
    IF s = <<>> THEN <<>>
    ELSE IF s[1] \in Whitespace THEN DropWhitespace(Tail(s))
    ELSE <<s[1]>> \o DropWhitespace(Tail(s))

\* Number of places where a token starts: a non-blank character at the start
\* of the text or right after a blank one.
TokenStarts(s) ==
    Cardinality({k \in 1..Len(s) :
                    s[k] \notin Whitespace /\ (k = 1 \/ s[k - 1] \in Whitespace)})

LowerCase == {"a", "b"}
SameLetter(c, u) == c = u \/ <<c, u>> \in {<<"a", "A">>, <<"b", "B">>}

\* t is the text s with the case the uppercase flag asks for
CasedAs(t, s) ==
    /\ Len(t) = Len(s)
    /\ IF uppercase
       THEN \A k \in 1..Len(s) : SameLetter(s[k], t[k]) /\ t[k] \notin LowerCase
       ELSE t = s

\* The line the call asks for, as stored in the file (with its terminator).
RequestedLine == Append(file_lines[header_line + 1], NL)

EmptyDict == <<>>

\* dict.get(key, default)
dict_get(dct, key, default) == IF key \in DOMAIN dct THEN dct[key] ELSE default

\* Size N of the lookup table of a colormap: 256 for the registered viridis,
\* 2 for a caller's ListedColormap of two colours.
LutSize(cm) ==
    CASE cm = "viridis" -> 256
      [] cm = "two_colours" -> 2

\* A colour is the index of an entry of the colormap's lookup table (the
\* entries of a table are distinct colours).  cm(x) for a float 0 <= x < 1 is
\* entry int(x * N); x is num/den here.
colormap_call(cm, num, den) == (num * LutSize(cm)) \div den

\* Faulty variant: the sample positions run from 1/num_colors to 1.
set_color_cycle_from_one(cm, num_colors) ==
    [k \in 1..num_colors |-> colormap_call(cm, k, num_colors)]

\* [cm(1. * i / num_colors) for i in range(num_colors)]
set_color_cycle(cm, num_colors) ==
    [k \in 1..num_colors |-> colormap_call(cm, k - 1, num_colors)]

\* lambda x, y: y[-1] < 10, the predicate used by the script
TailBelow10(x, y) == y[Len(y)] < 10

\* linear_condition(x, y) for the predicates a caller passes
apply_condition(cond, x, y) ==
    CASE cond = "tail_below_10" -> TailBelow10(x, y)
      [] OTHER -> FALSE

\* Default spline degree of scipy.interpolate.splrep
SplineDegree == 3

\* The splrep_kwargs entry plot_fit ends up with (lines 84-86): k=1 is added
\* when a predicate was given and holds of the series.
plot_fit_kwargs(kw, linear_condition, x, y) ==
    IF linear_condition # None /\ apply_condition(linear_condition, x, y)
    THEN LET given == dict_get(kw, "splrep_kwargs", EmptyDict)
             \* dict(kwargs.get("splrep_kwargs", {}), k=1)
             merged == [key \in (DOMAIN given) \cup {"k"} |->
                           IF key = "k" THEN 1 ELSE given[key]]
         IN  [key \in (DOMAIN kw) \cup {"splrep_kwargs"} |->
                 IF key = "splrep_kwargs" THEN merged ELSE kw[key]]
    ELSE kw

\* Degree splrep(x, y, **kwargs.get("splrep_kwargs", {})) fits with
fit_degree(kw) == dict_get(dict_get(kw, "splrep_kwargs", EmptyDict), "k", SplineDegree)

\* splrep raises TypeError("m > k must hold") unless there are more points
\* than the degree
splrep_ok(x, k) == Len(x) > k

\* Default number of samples of numpy.linspace
LinspaceNum == 50

\* Faulty variant: the samples stop one step short of stop (endpoint=False).
linspace_no_endpoint(start, stop) ==
    [scale |-> LinspaceNum,
     pts |-> [j \in 1..LinspaceNum |-> LinspaceNum * start + (j - 1) * (stop - start)]]

\* np.linspace(start, stop): LinspaceNum evenly spaced samples from start to
\* stop inclusive.  The samples are kept as exact fractions: pts[j] / scale.
linspace(start, stop) ==
    [scale |-> LinspaceNum - 1,
     pts |-> [j \in 1..LinspaceNum |->
                 (LinspaceNum - 1) * start + (j - 1) * (stop - start)]]

\* Faulty variant: one dict is reused for all calls, so what plot_fit stored in it for
\* one column is still there for the next.
plot_fit_call_kwargs_shared(previous, x) ==
    [key \in (DOMAIN previous) \cup {"linspace_kwargs"} |->
        IF key = "linspace_kwargs"
        THEN [start |-> x[1], stop |-> x[Len(x)]]
        ELSE previous[key]]

\* The keyword arguments plot_data passes to plot_fit (lines 130-133); the
\* dict is built anew for every call.
plot_fit_call_kwargs(previous, x) ==
    [key \in {"linspace_kwargs"} |-> [start |-> x[1], stop |-> x[Len(x)]]]

\* Faulty variant: the colour of the first scatter group instead of the latest.
first_facecolor(colls) == colls[1].color

\* plt.gca().collections[-1].get_facecolors()[0]
last_facecolor(colls) == colls[Len(colls)].color

\* Faulty variant: labels[i + 1], as for a label list that starts with the x label.
label_index_next(n_labels, col) ==
    IF col + 1 < n_labels THEN col + 2 ELSE 0

\* Python's labels[i - 1]: a negative index counts from the end, and an index
\* outside the list raises IndexError (reported as None here).
label_index(n_labels, col) ==
    LET idx == col - 1
        pos == IF idx < 0 THEN idx + n_labels ELSE idx
    IN  IF 0 <= pos /\ pos < n_labels THEN pos + 1 ELSE 0

\* What ax.legend() shows: the artists that carry a label, in drawing order.
legend_entries(lns) ==
    LET Pick[k \in 0..Len(lns)] ==
            IF k = 0 THEN <<>>
            ELSE IF lns[k].kind = "handle"
                 THEN Append(Pick[k - 1], [label |-> lns[k].label, color |-> lns[k].color])
                 ELSE Pick[k - 1]
    IN  Pick[Len(lns)]

\* ---- inputs ----
MaxCols == 3
MaxSmallN == 5
OverNum == 1

\* Numbers of data points: a few small ones, and the ones around the number
\* of samples of the fit curve.
PointCounts == (1..MaxSmallN) \cup ((LinspaceNum - 1)..(LinspaceNum + OverNum))

\* x positions: strictly increasing
XData(n) == [j \in 1..n |-> 3 * j - 2]

\* Two shapes of series: one that stays high and one that decays to zero.
Column(shape, n) ==
    IF shape = "high" THEN [j \in 1..n |-> 100 + j] ELSE [j \in 1..n |-> 7 * (n - j)]

Colormaps == {"viridis", "two_colours"}

Label(k) == <<"label", k>>

\* The dicts of keyword arguments a caller may pass: every subset of the
\* optional keys; color_cycle and linear_condition carry a value.
OptionalKeys == {"fig_kwargs", "ax_kwargs", "legend_kwargs", "color_cycle", "linear_condition"}

KwargDicts ==
    UNION {[keys -> {"dict"} \cup Colormaps \cup {"tail_below_10"}] : keys \in SUBSET OptionalKeys}

WellFormedKwargs(kw) ==
    \A key \in DOMAIN kw :
        CASE key = "color_cycle" -> kw[key] \in Colormaps
          [] key = "linear_condition" -> kw[key] = "tail_below_10"
          [] OTHER -> kw[key] = "dict"

NumCols == Len(y_data)
NumPoints == Len(x_data)

InitPlot ==
    /\ \E n \in PointCounts :
          /\ x_data = XData(n)
          /\ \E m \in 0..MaxCols :
                \E shapes \in [1..m -> {"high", "tail"}] :
                    y_data = [c \in 1..m |-> Column(shapes[c], n)]
    /\ \E n_labels \in 0..(MaxCols + 1) : labels = [k \in 1..n_labels |-> Label(k)]
    /\ kwargs \in {kw \in KwargDicts : WellFormedKwargs(kw)}
    /\ prop_cycle = <<>> /\ cycle_pos = 0 /\ collections = <<>> /\ lines = <<>>
    /\ fit_kwargs = EmptyDict /\ scatter_color = None /\ legend = None
    /\ i = 0 /\ pc = "subplots" /\ error = NoError
    /\ XformIdle
    /\ GetLineIdle

Raise(exc) ==
    /\ pc' = "raised"
    /\ error' = [exc |-> exc, at |-> pc]

\* **kwargs.get(key): unpacking None raises TypeError
UnpackFails(key) == dict_get(kwargs, key, None) = None

\* line 120: fig, ax = plt.subplots(1, 1, **kwargs.get('fig_kwargs'))
Subplots ==
    /\ pc = "subplots"
    /\ IF UnpackFails("fig_kwargs")
       THEN Raise("TypeError")
       ELSE pc' = "color_cycle" /\ UNCHANGED error
    /\ UNCHANGED <<x_data, y_data, labels, kwargs, prop_cycle, cycle_pos, collections,
                   lines, fit_kwargs, scatter_color, legend, i, xvars, gvars>>

\* line 121: set_color_cycle(ax, kwargs.get('color_cycle', 'viridis'), len(labels))
SetColorCycle ==
    /\ pc = "color_cycle"
    /\ prop_cycle' = set_color_cycle(
           dict_get(kwargs, "color_cycle", "viridis"), Len(labels))
    /\ cycle_pos' = 0
    /\ i' = 0
    /\ pc' = IF 0 < NumCols THEN "scatter" ELSE "set"
    /\ UNCHANGED <<x_data, y_data, labels, kwargs, collections, lines, fit_kwargs,
                   scatter_color, legend, error, xvars, gvars>>

\* lines 124-128: ax.scatter(x_data, y) takes the next colour of the cycle.
\* Drawing from an empty cycle raises; which exception depends on the
\* matplotlib version.
Scatter ==
    /\ pc = "scatter"
    /\ IF prop_cycle = <<>>
       THEN /\ \E exc \in {"IndexError", "StopIteration"} : Raise(exc)
            /\ UNCHANGED <<collections, cycle_pos, scatter_color>>
       ELSE LET colls == Append(collections,
                                [col |-> i,
                                 color |-> prop_cycle[(cycle_pos % Len(prop_cycle)) + 1]])
            IN  /\ collections' = colls
                /\ cycle_pos' = cycle_pos + 1
                /\ scatter_color' = last_facecolor(colls)
                /\ pc' = "fit"
                /\ UNCHANGED error
    /\ UNCHANGED <<x_data, y_data, labels, kwargs, prop_cycle, lines, fit_kwargs,
                   legend, i, xvars, gvars>>

\* lines 130-133 and plot_fit, lines 84-92
PlotFit ==
    /\ pc = "fit"
    /\ LET y == y_data[i + 1]
           kw == plot_fit_kwargs(plot_fit_call_kwargs(fit_kwargs, x_data),
                                 dict_get(kwargs, "linear_condition", None), x_data, y)
           k == fit_degree(kw)
           grid == linspace(kw["linspace_kwargs"].start, kw["linspace_kwargs"].stop)
       IN  /\ fit_kwargs' = kw
           /\ IF splrep_ok(x_data, k)
              THEN /\ lines' = Append(lines, [kind |-> "fit", col |-> i, k |-> k,
                                              xs |-> grid,
                                              color |-> last_facecolor(collections)])
                   /\ pc' = "handle"
                   /\ UNCHANGED error
              ELSE /\ Raise("TypeError")
                   /\ UNCHANGED lines
    /\ UNCHANGED <<x_data, y_data, labels, kwargs, prop_cycle, cycle_pos, collections,
                   scatter_color, legend, i, xvars, gvars>>

\* line 135: ax.plot([], [], '-o', label=labels[i - 1], color=scatter_color),
\* then the next turn of the loop
LegendHandle ==
    /\ pc = "handle"
    /\ LET at == label_index(Len(labels), i)
       IN  IF at = 0
           THEN /\ Raise("IndexError")
                /\ UNCHANGED <<lines, i>>
           ELSE /\ lines' = Append(lines, [kind |-> "handle", col |-> i,
                                           label |-> labels[at],
                                           color |-> scatter_color])
                /\ i' = i + 1
                /\ pc' = IF i + 1 < NumCols THEN "scatter" ELSE "set"
                /\ UNCHANGED error
    /\ UNCHANGED <<x_data, y_data, labels, kwargs, prop_cycle, cycle_pos, collections,
                   fit_kwargs, scatter_color, legend, xvars, gvars>>

\* line 137: ax.set(**kwargs.get('ax_kwargs'))
SetAxes ==
    /\ pc = "set"
    /\ IF UnpackFails("ax_kwargs")
       THEN Raise("TypeError")
       ELSE pc' = "legend" /\ UNCHANGED error
    /\ UNCHANGED <<x_data, y_data, labels, kwargs, prop_cycle, cycle_pos, collections,
                   lines, fit_kwargs, scatter_color, legend, i, xvars, gvars>>

\* lines 139-141: ax.legend(**kwargs.get('legend_kwargs')); plt.tight_layout()
Legend ==
    /\ pc = "legend"
    /\ IF UnpackFails("legend_kwargs")
       THEN Raise("TypeError") /\ UNCHANGED legend
       ELSE /\ legend' = legend_entries(lines)
            /\ pc' = "done"
            /\ UNCHANGED error
    /\ UNCHANGED <<x_data, y_data, labels, kwargs, prop_cycle, cycle_pos, collections,
                   lines, fit_kwargs, scatter_color, i, xvars, gvars>>

Next == Subplots \/ SetColorCycle \/ Scatter \/ PlotFit \/ LegendHandle \/ SetAxes \/ Legend

Spec == InitPlot /\ [][Next]_vars

(***************************************************************************)
(* Properties of plot_data                                                 *)
(***************************************************************************)
FitLines == {k \in 1..Len(lines) : lines[k].kind = "fit"}
HandleLines == {k \in 1..Len(lines) : lines[k].kind = "handle"}

\* plot_data is past set_color_cycle and has not raised
CycleInstalled == pc \in {"scatter", "fit", "handle", "set", "legend", "done"}

AllUnpackedGiven == {"fig_kwargs", "ax_kwargs", "legend_kwargs"} \subseteq DOMAIN kwargs

\* C2: with m columns and exactly m labels, plot_data finishes with m scatter
\* groups, m fit curves and m legend entries, and the legend entry of column c
\* carries labels[c].
C2_LegendInLabelOrder ==
    (pc = "done" /\ Len(labels) = NumCols) =>
        /\ Len(collections) = NumCols
        /\ Cardinality(FitLines) = NumCols
        /\ Len(legend) = NumCols
        /\ \A c \in 1..NumCols : legend[c].label = labels[c]

\* What the code does instead: the entry of column c (0-based) carries
\* labels[c - 1], so the last label comes first and the others follow.
CodeLegendRotated ==
    (pc = "done" /\ Len(labels) = NumCols) =>
        /\ Len(collections) = NumCols
        /\ Cardinality(FitLines) = NumCols
        /\ Len(legend) = NumCols
        /\ \A c \in 1..NumCols :
              legend[c].label = labels[IF c = 1 THEN NumCols ELSE c - 1]

\* colour idx is the colormap sampled at position num/den: the lookup-table
\* entry int(num/den * N)
SampledAt(idx, cm, num, den) ==
    /\ idx * den <= num * LutSize(cm)
    /\ num * LutSize(cm) < (idx + 1) * den

CycleFollowsColormap ==
    /\ Len(prop_cycle) = NumCols
    /\ \A k \in 1..NumCols :
          SampledAt(prop_cycle[k], dict_get(kwargs, "color_cycle", "viridis"), k - 1, NumCols)
    /\ \A k \in 1..Len(collections) :
          collections[k].color = prop_cycle[collections[k].col + 1]

CycleDistinct ==
    \A k1, k2 \in 1..Len(prop_cycle) : k1 # k2 => prop_cycle[k1] # prop_cycle[k2]

ScatterColorOf(c) ==
    LET k == CHOOSE k \in 1..Len(collections) : collections[k].col = c
    IN  collections[k].color

ColoursMatchScatter ==
    \A k \in 1..Len(lines) :
        /\ \E g \in 1..Len(collections) : collections[g].col = lines[k].col
        /\ lines[k].color = ScatterColorOf(lines[k].col)

FitFailed == pc = "raised" /\ error.at = "fit"

\* C4: the legend entry and the fit curve of every series have the colour
\* of that series' scatter group, and every series gets its legend entry
\* whether or not its fit succeeded.
C4_LegendIndependentOfFit ==
    /\ ColoursMatchScatter
    /\ FitFailed => \E k \in HandleLines : lines[k].col = i

\* C4 (amended): the colours match as claimed, and a series gets its legend
\* entry only after its fit succeeded: a failing fit ends plot_data, leaving
\* that series without a legend entry and the figure without a legend.
C4_LegendAfterFit ==
    /\ ColoursMatchScatter
    /\ \A k \in HandleLines :
          \E f \in FitLines : f < k /\ lines[f].col = lines[k].col
    /\ FitFailed =>
          /\ \A k \in HandleLines : lines[k].col # i
          /\ legend = None

C4_Witness ==
    /\ pc = "done" /\ NumCols = 3 /\ Len(legend) = 3
    /\ \A c \in 1..3 : legend[c].color = ScatterColorOf(c - 1)
    /\ legend[1].color # legend[2].color

\* C5: the fit of column c has degree 1 exactly when a linear_condition was
\* passed and holds of (x_data, column c), and degree 3 otherwise, whatever
\* the degrees of the columns before it.
C5_DegreePerColumn ==
    \A k \in FitLines :
        LET y == y_data[lines[k].col + 1]
        IN  lines[k].k = IF "linear_condition" \in DOMAIN kwargs /\ y[NumPoints] < 10
                         THEN 1
                         ELSE 3

\* A linear fit of the first column followed by a cubic fit of the second
C5_Witness ==
    /\ pc = "done" /\ NumCols >= 2
    /\ \E k1, k2 \in FitLines :
          /\ lines[k1].col = 0 /\ lines[k1].k = 1
          /\ lines[k2].col = 1 /\ lines[k2].k = 3

C9_OptionalKwargs ==
    pc = "raised" => error.at \notin {"subplots", "set", "legend"}

\* What the code does instead: each of the three is unpacked with ** and so
\* must be given; the first one missing raises TypeError.
CodeKwargsRequired ==
    /\ (pc = "raised" /\ error.at \in {"subplots", "set", "legend"}) =>
          /\ error.exc = "TypeError"
          /\ ~AllUnpackedGiven
    /\ pc = "done" => AllUnpackedGiven

GridSpansData(g) ==
    /\ g.pts[1] = g.scale * x_data[1]
    /\ g.pts[Len(g.pts)] = g.scale * x_data[NumPoints]
    /\ \A j \in 2..Len(g.pts) : g.pts[j] - g.pts[j - 1] = g.pts[2] - g.pts[1]

\* C10: the fit curve of a series of n points is evaluated on a linearly
\* spaced grid from x_data[0] to x_data[-1] with more than n points, for
\* every n.
C10_FinerGrid ==
    \A k \in FitLines :
        /\ GridSpansData(lines[k].xs)
        /\ Len(lines[k].xs.pts) > NumPoints

\* C10 (amended): the grid runs from x_data[0] to x_data[-1] in 50 evenly
\* spaced points whatever n is; it is finer than the input only for n < 50.
C10_FiftySamples ==
    \A k \in FitLines :
        /\ GridSpansData(lines[k].xs)
        /\ Len(lines[k].xs.pts) = 50
        /\ Len(lines[k].xs.pts) > NumPoints <=> NumPoints < 50

C10_Witness ==
    /\ pc = "done" /\ NumPoints > 50
    /\ \E k \in FitLines : lines[k].xs.pts[1] = 49 /\ lines[k].xs.pts[50] = 49 * x_data[NumPoints]

====
